---- MODULE Spec2Model ----
(***************************************************************************)
(* A model of dowhy.gcm.distribution_change:                               *)
(*   mechanism_change_test, _check_significant_mechanism_change,           *)
(*   _fit_accounting_for_mechanism_change, distribution_change,            *)
(*   distribution_change_of_graphs, __estimate_marginal_distribution_change*)
(*   estimate_distribution_change_scores and                               *)
(*   _estimate_distribution_change_score.                                  *)
(*                                                                         *)
(* Nodes are integers (so that sorted() is the numeric order), a graph is  *)
(* a record of its node iteration order, its edges and its node            *)
(* attributes, a causal mechanism is an object of a heap (an object id and *)
(* the data it was last fit on), and a sample table is the sequence of its *)
(* rows.  Each function is a small program counter machine; calls push the *)
(* return position on a stack.                                             *)
(***************************************************************************)
EXTENDS Integers, Sequences, FiniteSets, TLC

\* ------------------------------------------------------------------ bounds
NumNodes == 2
MaxP == 2
MaxRows == 2
MaxEval == 3
MaxDiff == 1
MaxSetCalls == 1

\* ----------------------------------------------------------------- helpers
Range(s) == {s[i] : i \in DOMAIN s}

Min(a, b) == IF a <= b THEN a ELSE b

Abs(a) == IF a < 0 THEN -a ELSE a

\* All orderings of the finite set S (the iteration orders a graph may have).
Perms(S) == {s \in [1..Cardinality(S) -> S] : \A i, j \in 1..Cardinality(S) : s[i] = s[j] => i = j}

\* The elements of seq that satisfy Keep, in seq's order.
RECURSIVE Filter(_, _)
Filter(seq, keep) ==
    IF seq = <<>> THEN <<>>
    ELSE IF Head(seq) \in keep THEN <<Head(seq)>> \o Filter(Tail(seq), keep)
    ELSE Filter(Tail(seq), keep)

\* Python's sorted() of a collection of distinct integers.
sorted(S) == CHOOSE s \in Perms(S) : \A i, j \in DOMAIN s : i < j => s[i] < s[j]

\* The index of x in the sequence s of distinct elements.
IndexOf(s, x) == CHOOSE i \in DOMAIN s : s[i] = x

\* dict(zip(keys, values)) for distinct keys.
DictZip(keys, values) == [k \in Range(keys) |-> values[IndexOf(keys, k)]]

Nodes == 1..NumNodes

AllEdges == {e \in Nodes \X Nodes : e[1] # e[2]}

\* Optional arrays: None, or the columns of a table.
None == [given |-> FALSE, cols |-> <<>>]

Some(cols) == [given |-> TRUE, cols |-> cols]

\* ------------------------------------------------------------------ graphs
predecessors(graph, node) == {e[1] : e \in {d \in graph.edges : d[2] = node}}

get_ordered_predecessors(graph, node) == sorted(predecessors(graph, node))

is_root_node(graph, node) == get_ordered_predecessors(graph, node) = <<>>

RECURSIVE AncestorsUpTo(_, _, _)
AncestorsUpTo(graph, S, k) ==
    IF k = 0 THEN S
    ELSE AncestorsUpTo(graph, S \cup UNION {predecessors(graph, n) : n \in S}, k - 1)

\* nx.ancestors(graph, node) together with node itself.
AncestorsAndSelf(graph, node) == AncestorsUpTo(graph, {node}, Len(graph.nodes))

\* The cycle test of validate_causal_dag.
is_directed_acyclic_graph(graph) ==
    \A n \in Range(graph.nodes) :
        \A p \in predecessors(graph, n) : n \notin AncestorsAndSelf(graph, p)

\* The subgraph induced by the ancestors of target_node and target_node; a view
\* iterates the nodes in the order of the underlying graph.
node_connected_subgraph_view(graph, target_node) ==
    LET keep == AncestorsAndSelf(graph, target_node)
    IN [nodes |-> Filter(graph.nodes, keep),
        edges |-> {e \in graph.edges : e[1] \in keep /\ e[2] \in keep},
        causal_mechanism |-> [n \in keep |-> graph.causal_mechanism[n]],
        parents_during_fit |-> [n \in keep |-> graph.parents_during_fit[n]]]

NoGraph == [nodes |-> <<>>, edges |-> {}, causal_mechanism |-> <<>>, parents_during_fit |-> <<>>]

VARIABLES
    pc,                         \* position in the running function
    stack,                      \* return positions of the callers
    error,                      \* the exception that ended the call, or "none"
    causal_model,               \* graph of the reference causal model
    target_node,
    causal_model_old,           \* graph of the 'old' model
    causal_model_new,           \* graph of the 'new' model
    mechanisms,                 \* heap: object id -> [data, fits]
    old_data,                   \* old_data / original_data
    new_data,                   \* new_data / anomaly_data
    joint_data,
    graph,                      \* graph given to _check_significant_mechanism_change
    all_p_values,
    calls,                      \* arguments of each mechanism_change_func call
    significance_level,
    fdr_control_method,
    factory,                    \* which graph_factory the caller passed
    mechanism_changed_for_node,
    fit_index,                  \* nodes done by the loop of the running function
    old_causal_models,          \* mechanisms of the old model, by player index
    new_causal_models,
    num_draws,                  \* calls of draw_samples so far
    num_differences,            \* calls of difference_estimation_func so far
    num_set_calls,              \* calls of attribution_set_function so far
    subset,                     \* argument of the last attribution_set_function call
    set_value,                  \* what that call returned
    hybrid,                     \* the hybrid model that call built
    attributions,
    results,                    \* scores of estimate_distribution_change_scores
    max_num_evaluation_samples,
    early_stopping_percentage,  \* a fraction <<numerator, denominator>>
    num_evaluation_rows,        \* joint_parent_samples.shape[0] after subsampling
    result,
    old_result,
    run,
    totals,                     \* history of result, one entry per row processed
    score,                      \* what _estimate_distribution_change_score returned
    parents_original_data,      \* arguments of mechanism_change_test
    parents_new_data,
    data_set_indices,
    original_indices,
    new_indices,
    joint_target_samples,
    joint_parent_data,
    independence_test_args,     \* number of arrays given to independence_test
    p_value

vars == <<pc, stack, error, causal_model, target_node, causal_model_old, causal_model_new,
          mechanisms, old_data, new_data, joint_data, graph, all_p_values, calls,
          significance_level, fdr_control_method, factory, mechanism_changed_for_node, fit_index,
          old_causal_models, new_causal_models, num_draws, num_differences, num_set_calls,
          subset, set_value, hybrid, attributions, results, max_num_evaluation_samples,
          early_stopping_percentage, num_evaluation_rows, result, old_result, run, totals,
          score, parents_original_data, parents_new_data, data_set_indices, original_indices,
          new_indices, joint_target_samples, joint_parent_data, independence_test_args,
          p_value>>

scoreVars == <<max_num_evaluation_samples, early_stopping_percentage, num_evaluation_rows,
               result, old_result, run, totals, score>>

testVars == <<parents_original_data, parents_new_data, data_set_indices, original_indices,
              new_indices, joint_target_samples, joint_parent_data, independence_test_args,
              p_value>>

shapleyVars == <<old_causal_models, new_causal_models, num_set_calls, subset, set_value,
                 hybrid, attributions>>

countVars == <<num_draws, num_differences>>

modelVars == <<causal_model, target_node, causal_model_old, causal_model_new, mechanisms>>

dataVars == <<old_data, new_data>>

paramVars == <<significance_level, fdr_control_method, factory>>

checkVars == <<graph, all_p_values, calls, mechanism_changed_for_node>>

\* What a difference estimation function may return.
DifferenceValues == -MaxDiff..MaxDiff

\* -------------------------------------------------------------- sample data
\* A table is the sequence of its rows; a row is named by its table and index.
Table(name, n) == [i \in 1..n |-> <<name, i>>]

\* ---------------------------------------------------- multiple-test control
\* np.array(all_p_values) <= significance_level
Uncorrected(p_values, alpha) == [i \in DOMAIN p_values |-> p_values[i] <= alpha]

\* multipletests(all_p_values, alpha, method='fdr_bh')[0]: Benjamini-Hochberg's
\* step-up procedure; a hypothesis is rejected when some p-value not below its own
\* is at most (rank / m) * alpha.
FdrBh(p_values, alpha) ==
    LET m == Len(p_values)
        rank(v) == Cardinality({l \in 1..m : p_values[l] <= v})
    IN [i \in DOMAIN p_values |->
            \E j \in 1..m : /\ p_values[i] <= p_values[j]
                            /\ p_values[j] * m <= rank(p_values[j]) * alpha]

ControlledAlways(p_values, alpha, method) == FdrBh(p_values, alpha)

Successes(p_values, alpha, method) ==
    IF method = "None" THEN Uncorrected(p_values, alpha) ELSE FdrBh(p_values, alpha)

\* -------------------------------------- _check_significant_mechanism_change
CallCheck(g, return_to) ==
    /\ graph' = g
    /\ all_p_values' = <<>>
    /\ calls' = <<>>
    /\ mechanism_changed_for_node' = <<>>
    /\ pc' = "check:loop"
    /\ stack' = <<return_to>> \o stack

\* parents_org_data: None for a root node, else the old data's columns of the
\* node's ordered predecessors.
ParentsOrgData(g, node) ==
    IF is_root_node(g, node) THEN None ELSE Some(get_ordered_predecessors(g, node))

NoNewParentsData(g, node) == None

\* parents_new_data: None for a root node, else the new data's columns of the
\* node's ordered predecessors.
ParentsNewData(g, node) ==
    IF is_root_node(g, node) THEN None ELSE Some(get_ordered_predecessors(g, node))

\* One iteration of the loop over graph.nodes: a call of mechanism_change_func,
\* which returns some p-value.
CheckNode ==
    /\ pc = "check:loop"
    /\ Len(all_p_values) < Len(graph.nodes)
    /\ LET node == graph.nodes[Len(all_p_values) + 1]
           parents_org == ParentsOrgData(graph, node)
           parents_new == ParentsNewData(graph, node)
       IN /\ calls' = Append(calls, [node |-> node,
                                     parents_original_data |-> parents_org,
                                     parents_new_data |-> parents_new])
          /\ \E p \in 0..MaxP : all_p_values' = Append(all_p_values, p)
    /\ UNCHANGED <<pc, stack, error, graph, mechanism_changed_for_node, fit_index,
                   joint_data>>
    /\ UNCHANGED <<modelVars, dataVars, paramVars, shapleyVars, countVars, results>>
    /\ UNCHANGED <<scoreVars, testVars>>

\* After the loop: the decisions, keyed by node in graph.nodes' order.
CheckDecide ==
    /\ pc = "check:loop"
    /\ Len(all_p_values) = Len(graph.nodes)
    /\ mechanism_changed_for_node' =
           DictZip(graph.nodes, Successes(all_p_values, significance_level, fdr_control_method))
    /\ pc' = "check:return"
    /\ UNCHANGED <<stack, error, graph, all_p_values, calls, fit_index, joint_data>>
    /\ UNCHANGED <<modelVars, dataVars, paramVars, shapleyVars, countVars, results>>
    /\ UNCHANGED <<scoreVars, testVars>>

\* The dictionary goes to the caller; the locals are gone.
CheckReturn ==
    /\ pc = "check:return"
    /\ pc' = Head(stack)
    /\ stack' = Tail(stack)
    /\ graph' = NoGraph
    /\ all_p_values' = <<>>
    /\ calls' = <<>>
    /\ UNCHANGED <<error, mechanism_changed_for_node, fit_index, joint_data>>
    /\ UNCHANGED <<modelVars, dataVars, paramVars, shapleyVars, countVars, results>>
    /\ UNCHANGED <<scoreVars, testVars>>

\* ------------------------------------------------------------ mechanisms
\* mechanism.fit(...) on the rows of data: the object is refit in place.
Fit(heap, id, data) == [heap EXCEPT ![id] = [data |-> data, fits |-> @.fits + 1]]

\* mechanism.clone(): a new object with the state of the cloned one.
Clone(heap, id) == Append(heap, [data |-> heap[id].data, fits |-> 0])

\* What the clone step leaves in the destination's node attribute.
CloneOf(heap, id) == Len(heap) + 1

\* clone_causal_models(source, destination): every node of destination gets a clone
\* of source's mechanism of that node.  Returns the destination and the heap.
RECURSIVE clone_causal_models(_, _, _, _)
clone_causal_models(source, destination, heap, i) ==
    IF i > Len(destination.nodes) THEN [graph |-> destination, heap |-> heap]
    ELSE LET node == destination.nodes[i]
         IN clone_causal_models(
                source,
                [destination EXCEPT !.causal_mechanism[node] =
                                        CloneOf(heap, source.causal_mechanism[node])],
                Clone(heap, source.causal_mechanism[node]),
                i + 1)

Reverse(seq) == [i \in DOMAIN seq |-> seq[Len(seq) + 1 - i]]

\* The graph factories a caller may pass: nx.DiGraph, which keeps the iteration
\* order of the graph it copies, and a factory whose copy iterates in reverse.
GraphFactories == {"DiGraph", "reversed"}

\* graph_factory(g): a new graph with g's nodes, edges and node attributes.
graph_factory(g) ==
    [g EXCEPT !.nodes = IF factory = "reversed" THEN Reverse(g.nodes) ELSE g.nodes]

\* fit_causal_model_of_target(model, node, data)
fit_causal_model_of_target(model, heap, node, data) ==
    [graph |-> [model EXCEPT !.parents_during_fit[node] = get_ordered_predecessors(model, node)],
     heap |-> Fit(heap, model.causal_mechanism[node], data)]

\* ------------------------------------------------- distribution_change, 1
OldGraphWithSharedMechanisms ==
    [graph |-> graph_factory(node_connected_subgraph_view(causal_model, target_node)),
     heap |-> mechanisms]

OldGraphOfWholeModel ==
    clone_causal_models(causal_model, graph_factory(causal_model), mechanisms, 1)

\* causal_graph_old = graph_factory(view); clone_causal_models(causal_model.graph, ..)
BuildOldGraph ==
    clone_causal_models(
        causal_model,
        graph_factory(node_connected_subgraph_view(causal_model, target_node)),
        mechanisms, 1)

\* causal_graph_new = graph_factory(causal_graph_old); clone_causal_models(old, new)
BuildNewGraph(old) ==
    clone_causal_models(old.graph, graph_factory(old.graph), old.heap, 1)

\* The two models the analysis works on.
DistributionChangeBuild ==
    /\ pc = "distribution_change"
    /\ LET old == BuildOldGraph
           new == BuildNewGraph(old)
       IN /\ causal_model_old' = old.graph
          /\ causal_model_new' = new.graph
          /\ mechanisms' = new.heap
    /\ pc' = "fit"
    /\ stack' = <<"distribution_change_of_graphs", "distribution_change:return">> \o stack
    /\ UNCHANGED <<error, causal_model, target_node, joint_data, fit_index, results>>
    /\ UNCHANGED <<dataVars, paramVars, checkVars, shapleyVars, countVars>>
    /\ UNCHANGED <<scoreVars, testVars>>

DistributionChangeReturn ==
    /\ pc = "distribution_change:return"
    /\ pc' = Head(stack)
    /\ stack' = Tail(stack)
    /\ UNCHANGED <<error, joint_data, fit_index, results>>
    /\ UNCHANGED <<modelVars, dataVars, paramVars, checkVars, shapleyVars, countVars>>
    /\ UNCHANGED <<scoreVars, testVars>>

\* ------------------------------------ _fit_accounting_for_mechanism_change
FitCheck ==
    /\ pc = "fit"
    /\ CallCheck(causal_model_old, "fit:joint")
    /\ UNCHANGED <<error, joint_data, fit_index, results>>
    /\ UNCHANGED <<modelVars, dataVars, paramVars, shapleyVars, countVars>>
    /\ UNCHANGED <<scoreVars, testVars>>

\* joint_data = old_data.append(new_data, ignore_index=True, sort=True)
FitJoint ==
    /\ pc = "fit:joint"
    /\ joint_data' = old_data \o new_data
    /\ fit_index' = 0
    /\ pc' = "fit:loop"
    /\ UNCHANGED <<stack, error, results>>
    /\ UNCHANGED <<modelVars, dataVars, paramVars, checkVars, shapleyVars, countVars>>
    /\ UNCHANGED <<scoreVars, testVars>>

AlwaysOwnData(changed, own, joint) == own

\* The data a model's mechanism is refit on: its own regime's if the node's
\* mechanism changed, the joint data otherwise.
TrainingData(changed, own, joint) == IF changed THEN own ELSE joint

\* One iteration of the loop over causal_model_new.graph.nodes.
FitNode ==
    /\ pc = "fit:loop"
    /\ fit_index < Len(causal_model_new.nodes)
    /\ LET node == causal_model_new.nodes[fit_index + 1]
           changed == mechanism_changed_for_node[node]
           old == fit_causal_model_of_target(causal_model_old, mechanisms, node,
                                             TrainingData(changed, old_data, joint_data))
           new == fit_causal_model_of_target(causal_model_new, old.heap, node,
                                             TrainingData(changed, new_data, joint_data))
       IN /\ causal_model_old' = old.graph
          /\ causal_model_new' = new.graph
          /\ mechanisms' = new.heap
    /\ fit_index' = fit_index + 1
    /\ UNCHANGED <<pc, stack, error, causal_model, target_node, joint_data, results>>
    /\ UNCHANGED <<dataVars, paramVars, checkVars, shapleyVars, countVars>>
    /\ UNCHANGED <<scoreVars, testVars>>

FitReturn ==
    /\ pc = "fit:loop"
    /\ fit_index = Len(causal_model_new.nodes)
    /\ pc' = Head(stack)
    /\ stack' = Tail(stack)
    /\ UNCHANGED <<error, joint_data, fit_index, results>>
    /\ UNCHANGED <<modelVars, dataVars, paramVars, checkVars, shapleyVars, countVars>>
    /\ UNCHANGED <<scoreVars, testVars>>

\* ------------------------------------------ distribution_change_of_graphs
\* validate_causal_dag on both graphs, then the Shapley attribution.
DistributionChangeOfGraphs ==
    /\ pc = "distribution_change_of_graphs"
    /\ IF is_directed_acyclic_graph(causal_model_old) /\ is_directed_acyclic_graph(causal_model_new)
       THEN /\ pc' = "shapley"
            /\ UNCHANGED <<stack, error>>
       ELSE /\ pc' = "raised"
            /\ error' = "validation"
            /\ UNCHANGED stack
    /\ UNCHANGED <<joint_data, fit_index, results>>
    /\ UNCHANGED <<modelVars, dataVars, paramVars, checkVars, shapleyVars, countVars>>
    /\ UNCHANGED <<scoreVars, testVars>>

\* ---------------------------------- __estimate_marginal_distribution_change
ViewOld == node_connected_subgraph_view(causal_model_old, target_node)

ViewNew == node_connected_subgraph_view(causal_model_new, target_node)

MechanismsInIterationOrder(g) == [i \in DOMAIN g.nodes |-> g.causal_mechanism[g.nodes[i]]]

\* [model.causal_mechanism(x) for x in sorted(model.graph.nodes)]
MechanismsInSortedOrder(g) ==
    LET nodes == sorted(Range(g.nodes))
    IN [i \in DOMAIN nodes |-> g.causal_mechanism[nodes[i]]]

\* The lists of mechanisms and the samples of the old model's target.
ShapleyStart ==
    /\ pc = "shapley"
    /\ old_causal_models' = MechanismsInSortedOrder(ViewOld)
    /\ new_causal_models' = MechanismsInSortedOrder(ViewNew)
    /\ num_draws' = num_draws + 1
    /\ pc' = "shapley:estimate"
    /\ UNCHANGED <<stack, error, joint_data, fit_index, results, num_differences,
                   num_set_calls, subset, set_value, hybrid, attributions>>
    /\ UNCHANGED <<modelVars, dataVars, paramVars, checkVars>>
    /\ UNCHANGED <<scoreVars, testVars>>

NeverEmptySubset(s) == FALSE

\* np.all(subset == 0)
IsEmptySubset(s) == \A i \in DOMAIN s : s[i] = 0

\* The causal model of a non-empty subset: node i of the sorted nodes gets the new
\* mechanism of player i if the subset holds i, the old one otherwise, and every
\* node its ordered parents.
RECURSIVE SetMechanisms(_, _, _, _)
SetMechanisms(model, nodes, s, i) ==
    IF i > Len(old_causal_models) THEN model
    ELSE SetMechanisms(
             [model EXCEPT !.causal_mechanism[nodes[i]] =
                               IF s[i] = 1 THEN new_causal_models[i] ELSE old_causal_models[i]],
             nodes, s, i + 1)

HybridNodes(model) == sorted(Range(model.nodes))

HybridModel(s) ==
    LET model == graph_factory(ViewOld)
        assigned == SetMechanisms(model, HybridNodes(model), s, 1)
    IN [assigned EXCEPT !.parents_during_fit =
                            [n \in Range(assigned.nodes) |-> get_ordered_predecessors(assigned, n)]]

\* One call of attribution_set_function by the Shapley estimator.
AttributionSetFunction ==
    /\ pc = "shapley:estimate"
    /\ num_set_calls < MaxSetCalls
    /\ num_set_calls' = num_set_calls + 1
    /\ \E s \in [DOMAIN old_causal_models -> {0, 1}] :
         /\ subset' = s
         /\ IF IsEmptySubset(s)
            THEN /\ set_value' = 0
                 /\ UNCHANGED <<hybrid, num_draws, num_differences>>
            ELSE /\ hybrid' = HybridModel(s)
                 /\ num_draws' = num_draws + 1
                 /\ num_differences' = num_differences + 1
                 /\ \E d \in DifferenceValues : set_value' = d
    /\ UNCHANGED <<pc, stack, error, joint_data, fit_index, results, old_causal_models,
                   new_causal_models, attributions>>
    /\ UNCHANGED <<modelVars, dataVars, paramVars, checkVars>>
    /\ UNCHANGED <<scoreVars, testVars>>

\* The keys of the returned dictionary, by player index.
AttributionKeys(g) == sorted(Range(g.nodes))

\* {x: attributions[i] for i, x in enumerate(sorted(causal_model_old.graph.nodes))}:
\* the value of a key is the index of the player whose Shapley value it gets.
ShapleyReturn ==
    /\ pc = "shapley:estimate"
    /\ attributions' = [x \in Range(ViewOld.nodes) |-> IndexOf(AttributionKeys(ViewOld), x)]
    /\ pc' = Head(stack)
    /\ stack' = Tail(stack)
    /\ UNCHANGED <<error, joint_data, fit_index, results, old_causal_models, new_causal_models,
                   num_set_calls, subset, set_value, hybrid>>
    /\ UNCHANGED <<modelVars, dataVars, paramVars, checkVars, countVars>>
    /\ UNCHANGED <<scoreVars, testVars>>

\* ------------------------------------- estimate_distribution_change_scores
\* validate_causal_dag, then the mechanism change tests on the whole graph.
ScoresValidate ==
    /\ pc = "scores"
    /\ IF is_directed_acyclic_graph(causal_model)
       THEN /\ CallCheck(causal_model, "scores:loop")
            /\ UNCHANGED error
       ELSE /\ pc' = "raised"
            /\ error' = "validation"
            /\ UNCHANGED <<stack, checkVars>>
    /\ UNCHANGED <<joint_data, fit_index, results>>
    /\ UNCHANGED <<modelVars, dataVars, paramVars, shapleyVars, countVars>>
    /\ UNCHANGED <<scoreVars, testVars>>

\* causal_model_original.clone() and the clone's fit on the anomaly data, the first
\* steps of _estimate_distribution_change_score.
CloneAndFit(heap, id, anomaly_data) == Fit(Clone(heap, id), CloneOf(heap, id), anomaly_data)

ScoreAlwaysMonteCarlo(changed, root) == IF changed THEN "monte_carlo" ELSE "constant"

\* Which way a node's score is computed.
ScoreKind(changed, root) ==
    IF changed
    THEN IF root THEN "difference_fn" ELSE "monte_carlo"
    ELSE "constant"

\* One iteration of the loop over causal_model.graph.nodes.  The score of a changed
\* node with parents is what _estimate_distribution_change_score returns, which
\* clones and refits the node's mechanism and draws from both mechanisms.
ScoreNode ==
    /\ pc = "scores:loop"
    /\ fit_index < Len(causal_model.nodes)
    /\ LET node == causal_model.nodes[fit_index + 1]
           kind == ScoreKind(mechanism_changed_for_node[node], is_root_node(causal_model, node))
       IN \/ /\ kind = "constant"
             /\ results' = results @@ (node :> [value |-> 0, by |-> kind, args |-> <<>>])
             /\ UNCHANGED <<mechanisms, num_draws, num_differences>>
          \/ /\ kind = "difference_fn"
             /\ \E d \in DifferenceValues :
                  results' = results @@ (node :> [value |-> d, by |-> kind,
                                                  args |-> <<<<"original_data", node>>,
                                                             <<"anomaly_data", node>>>>])
             /\ num_differences' = num_differences + 1
             /\ UNCHANGED <<mechanisms, num_draws>>
          \/ /\ kind = "monte_carlo"
             /\ \E d \in DifferenceValues :
                  results' = results @@ (node :> [value |-> d, by |-> kind,
                                                  args |-> get_ordered_predecessors(causal_model, node)])
             /\ mechanisms' = CloneAndFit(mechanisms, causal_model.causal_mechanism[node], new_data)
             /\ num_draws' = num_draws + 2
             /\ num_differences' = num_differences + 1
    /\ fit_index' = fit_index + 1
    /\ UNCHANGED <<pc, stack, error, causal_model, target_node, causal_model_old,
                   causal_model_new, joint_data>>
    /\ UNCHANGED <<dataVars, paramVars, checkVars, shapleyVars>>
    /\ UNCHANGED <<scoreVars, testVars>>

ScoresReturn ==
    /\ pc = "scores:loop"
    /\ fit_index = Len(causal_model.nodes)
    /\ pc' = Head(stack)
    /\ stack' = Tail(stack)
    /\ UNCHANGED <<error, joint_data, fit_index, results>>
    /\ UNCHANGED <<modelVars, dataVars, paramVars, checkVars, shapleyVars, countVars>>
    /\ UNCHANGED <<scoreVars, testVars>>

\* ------------------------------------- _estimate_distribution_change_score
\* The clone, its fit, and the subsample of the joint parent rows.
ScoreStart ==
    /\ pc = "score"
    /\ mechanisms' = CloneAndFit(mechanisms, 1, new_data)
    /\ num_evaluation_rows' = Min(Len(old_data) + Len(new_data), max_num_evaluation_samples)
    /\ result' = 0
    /\ run' = 0
    /\ pc' = "score:loop"
    /\ UNCHANGED <<stack, error, causal_model, target_node, causal_model_old, causal_model_new,
                   joint_data, fit_index, results>>
    /\ UNCHANGED <<dataVars, paramVars, checkVars, shapleyVars, countVars, testVars>>
    /\ UNCHANGED <<max_num_evaluation_samples, early_stopping_percentage, old_result, totals,
                   score>>

EarlyStopOnSmallChange(new, old, percentage) ==
    Abs(old - new) * percentage[2] <= percentage[1] * Abs(old)

\* (1 - result / old_result) <= early_stopping_percentage, for old # 0 and the
\* percentage num / den with den > 0.
EarlyStop(new, old, percentage) ==
    IF old > 0
    THEN (old - new) * percentage[2] <= percentage[1] * old
    ELSE (old - new) * percentage[2] >= percentage[1] * old

\* One iteration of the loop over joint_parent_samples.
ScoreRow ==
    /\ pc = "score:loop"
    /\ run < num_evaluation_rows
    /\ old_result' = result
    /\ \E d \in DifferenceValues : result' = result + d
    /\ num_draws' = num_draws + 2
    /\ num_differences' = num_differences + 1
    /\ run' = run + 1
    /\ totals' = Append(totals, result')
    /\ pc' = IF old_result' # 0 /\ EarlyStop(result', old_result', early_stopping_percentage)
             THEN "score:break"
             ELSE "score:loop"
    /\ UNCHANGED <<stack, error, joint_data, fit_index, results>>
    /\ UNCHANGED <<modelVars, dataVars, paramVars, checkVars, shapleyVars, testVars>>
    /\ UNCHANGED <<max_num_evaluation_samples, early_stopping_percentage, num_evaluation_rows,
                   score>>

\* return result / run
ScoreReturn ==
    /\ \/ pc = "score:break"
       \/ pc = "score:loop" /\ run = num_evaluation_rows
    /\ IF run = 0
       THEN /\ error' = "ZeroDivisionError"
            /\ pc' = "raised"
            /\ UNCHANGED <<stack, score>>
       ELSE /\ score' = <<result, run>>
            /\ pc' = Head(stack)
            /\ stack' = Tail(stack)
            /\ UNCHANGED error
    /\ UNCHANGED <<joint_data, fit_index, results>>
    /\ UNCHANGED <<modelVars, dataVars, paramVars, checkVars, shapleyVars, countVars, testVars>>
    /\ UNCHANGED <<max_num_evaluation_samples, early_stopping_percentage, num_evaluation_rows,
                   result, old_result, run, totals>>

\* ------------------------------------------------- mechanism_change_test
OnlyFirstCheck(original, new) == original.given /\ ~new.given

\* The two checks at the top: one parent array given and the other not.
ParentsMismatch(original, new) ==
    \/ original.given /\ ~new.given
    \/ ~original.given /\ new.given

TestValidate ==
    /\ pc = "test"
    /\ IF ParentsMismatch(parents_original_data, parents_new_data)
       THEN /\ error' = "ValueError"
            /\ pc' = "raised"
       ELSE /\ pc' = "test:subsample"
            /\ UNCHANGED error
    /\ UNCHANGED <<stack, joint_data, fit_index, results>>
    /\ UNCHANGED <<modelVars, dataVars, paramVars, checkVars, shapleyVars, countVars>>
    /\ UNCHANGED <<scoreVars, testVars>>

\* np.random.choice(n, k, replace=False): k distinct indices below n, in any order.
Choices(n, k) == {s \in [1..k -> 0..(n - 1)] : \A i, j \in 1..k : s[i] = s[j] => i = j}

\* str() of the floats of np.ones(..) and of -1 stored into that array.
FloatToStr(x) == IF x = 1 THEN "1.0" ELSE "-1.0"

TakeLeadingRows(table, column, indices) ==
    [k \in DOMAIN indices |-> [row |-> table[k], column |-> column]]

\* The rows of a table's column(s) at the given indices.
Take(table, column, indices) ==
    [k \in DOMAIN indices |-> [row |-> table[indices[k] + 1], column |-> column]]

\* The labels and the balanced subsample of the target column.
TestSubsample ==
    /\ pc = "test:subsample"
    /\ LET num_samples_for_testing == Min(Len(old_data), Len(new_data))
       IN /\ data_set_indices' =
                 [k \in 1..(num_samples_for_testing * 2) |->
                     FloatToStr(IF k > num_samples_for_testing THEN -1 ELSE 1)]
          /\ \E o \in Choices(Len(old_data), num_samples_for_testing) :
               \E n \in Choices(Len(new_data), num_samples_for_testing) :
                 /\ original_indices' = o
                 /\ new_indices' = n
                 /\ joint_target_samples' = Take(old_data, "target", o) \o Take(new_data, "target", n)
    /\ pc' = "test:independence"
    /\ UNCHANGED <<stack, error, joint_data, fit_index, results>>
    /\ UNCHANGED <<modelVars, dataVars, paramVars, checkVars, shapleyVars, countVars, scoreVars>>
    /\ UNCHANGED <<parents_original_data, parents_new_data, joint_parent_data,
                   independence_test_args, p_value>>

\* The independence test, conditional on the parents when they are given; it
\* returns some p-value.
TestIndependence ==
    /\ pc = "test:independence"
    /\ IF ~parents_original_data.given
       THEN /\ independence_test_args' = 2
            /\ UNCHANGED joint_parent_data
       ELSE /\ joint_parent_data' = Take(old_data, "parents", original_indices)
                                        \o Take(new_data, "parents", new_indices)
            /\ independence_test_args' = 3
    /\ \E p \in 0..MaxP : p_value' = p
    /\ pc' = Head(stack)
    /\ stack' = Tail(stack)
    /\ UNCHANGED <<error, joint_data, fit_index, results>>
    /\ UNCHANGED <<modelVars, dataVars, paramVars, checkVars, shapleyVars, countVars, scoreVars>>
    /\ UNCHANGED <<parents_original_data, parents_new_data, data_set_indices, original_indices,
                   new_indices, joint_target_samples>>

\* ------------------------------------------------------------ initial states
\* The reference causal models: every iteration order and every edge set over the
\* nodes, node n holding mechanism object n, fitted.
ReferenceGraphs ==
    {[nodes |-> order,
      edges |-> edges,
      causal_mechanism |-> [n \in Nodes |-> n],
      parents_during_fit |-> [n \in Nodes |-> sorted({e[1] : e \in {d \in edges : d[2] = n}})]] :
         order \in Perms(Nodes), edges \in SUBSET AllEdges}

FittedMechanism == [data |-> Table("reference", 1), fits |-> 0]

InitControl ==
    /\ stack = <<"done">>
    /\ error = "none"
    /\ joint_data = <<>>
    /\ fit_index = 0
    /\ num_draws = 0
    /\ num_differences = 0
    /\ results = <<>>

InitCheckIdle ==
    /\ graph = NoGraph
    /\ all_p_values = <<>>
    /\ calls = <<>>
    /\ mechanism_changed_for_node = <<>>

InitShapleyIdle ==
    /\ old_causal_models = <<>>
    /\ new_causal_models = <<>>
    /\ num_set_calls = 0
    /\ subset = <<>>
    /\ set_value = 0
    /\ hybrid = NoGraph
    /\ attributions = <<>>

InitScoreIdle ==
    /\ max_num_evaluation_samples = 0
    /\ early_stopping_percentage = <<0, 1>>
    /\ num_evaluation_rows = 0
    /\ result = 0
    /\ old_result = 0
    /\ run = 0
    /\ totals = <<>>
    /\ score = <<0, 0>>

InitTestIdle ==
    /\ parents_original_data = None
    /\ parents_new_data = None
    /\ data_set_indices = <<>>
    /\ original_indices = <<>>
    /\ new_indices = <<>>
    /\ joint_target_samples = <<>>
    /\ joint_parent_data = <<>>
    /\ independence_test_args = 0
    /\ p_value = 0

InitParams ==
    /\ significance_level \in 0..MaxP
    /\ fdr_control_method \in {"None", "fdr_bh"}
    /\ factory = "DiGraph"

InitNoParams ==
    /\ significance_level = 0
    /\ fdr_control_method = "None"
    /\ factory = "DiGraph"

\* A call of distribution_change.
InitChange ==
    /\ pc = "distribution_change"
    /\ causal_model \in ReferenceGraphs
    /\ target_node \in Nodes
    /\ causal_model_old = NoGraph
    /\ causal_model_new = NoGraph
    /\ mechanisms = [id \in 1..NumNodes |-> FittedMechanism]
    /\ significance_level = 1
    /\ fdr_control_method = "fdr_bh"
    /\ factory \in GraphFactories
    /\ old_data = Table("old", MaxRows)
    /\ new_data = Table("new", 1)
    /\ InitControl /\ InitCheckIdle /\ InitShapleyIdle /\ InitScoreIdle /\ InitTestIdle

NextChange ==
    \/ DistributionChangeBuild
    \/ FitCheck
    \/ CheckNode
    \/ CheckDecide
    \/ CheckReturn
    \/ FitJoint
    \/ FitNode
    \/ FitReturn
    \/ DistributionChangeOfGraphs
    \/ ShapleyStart
    \/ AttributionSetFunction
    \/ ShapleyReturn
    \/ DistributionChangeReturn

SpecChange == InitChange /\ [][NextChange]_vars

\* A call of distribution_change_of_graphs: two fitted models of the same causal
\* structure, each graph with an iteration order of its own.
InitGraphs ==
    /\ pc = "distribution_change_of_graphs"
    /\ causal_model = NoGraph
    /\ target_node \in Nodes
    /\ \E g \in ReferenceGraphs, order \in Perms(Nodes) :
         /\ causal_model_old = g
         /\ causal_model_new = [g EXCEPT !.nodes = order,
                                         !.causal_mechanism = [n \in Nodes |-> NumNodes + n]]
    /\ mechanisms = [id \in 1..(2 * NumNodes) |-> FittedMechanism]
    /\ significance_level = 0
    /\ fdr_control_method = "None"
    /\ factory \in GraphFactories
    /\ old_data = <<>>
    /\ new_data = <<>>
    /\ InitControl /\ InitCheckIdle /\ InitShapleyIdle /\ InitScoreIdle /\ InitTestIdle

NextGraphs ==
    \/ DistributionChangeOfGraphs
    \/ ShapleyStart
    \/ AttributionSetFunction
    \/ ShapleyReturn

SpecGraphs == InitGraphs /\ [][NextGraphs]_vars

\* A call of estimate_distribution_change_scores.
InitScores ==
    /\ pc = "scores"
    /\ causal_model \in ReferenceGraphs
    /\ target_node = 1
    /\ causal_model_old = NoGraph
    /\ causal_model_new = NoGraph
    /\ mechanisms = [id \in 1..NumNodes |-> FittedMechanism]
    /\ old_data = Table("old", MaxRows)
    /\ new_data = Table("new", MaxRows)
    /\ InitControl /\ InitCheckIdle /\ InitShapleyIdle /\ InitParams
    /\ InitScoreIdle /\ InitTestIdle

NextScores ==
    \/ ScoresValidate
    \/ CheckNode
    \/ CheckDecide
    \/ CheckReturn
    \/ ScoreNode
    \/ ScoresReturn

SpecScores == InitScores /\ [][NextScores]_vars

EarlyStoppingPercentages == {<<0, 1>>, <<1, 100>>, <<1, 2>>}

\* A call of _estimate_distribution_change_score on a node's mechanism (object 1).
InitScore ==
    /\ pc = "score"
    /\ causal_model = NoGraph
    /\ target_node = 1
    /\ causal_model_old = NoGraph
    /\ causal_model_new = NoGraph
    /\ mechanisms = <<FittedMechanism>>
    /\ InitNoParams
    /\ old_data \in {Table("old", n) : n \in 0..MaxRows}
    /\ new_data \in {Table("new", n) : n \in 0..MaxRows}
    /\ max_num_evaluation_samples \in 0..MaxEval
    /\ early_stopping_percentage \in EarlyStoppingPercentages
    /\ num_evaluation_rows = 0
    /\ result = 0
    /\ old_result = 0
    /\ run = 0
    /\ totals = <<>>
    /\ score = <<0, 0>>
    /\ InitControl /\ InitCheckIdle /\ InitShapleyIdle /\ InitTestIdle

NextScore ==
    \/ ScoreStart
    \/ ScoreRow
    \/ ScoreReturn

SpecScore == InitScore /\ [][NextScore]_vars

\* A call of mechanism_change_test on the target column of two tables.
InitTest ==
    /\ pc = "test"
    /\ causal_model = NoGraph
    /\ target_node = 1
    /\ causal_model_old = NoGraph
    /\ causal_model_new = NoGraph
    /\ mechanisms = <<>>
    /\ InitNoParams
    /\ old_data \in {Table("old", n) : n \in 0..MaxRows}
    /\ new_data \in {Table("new", n) : n \in 0..MaxRows}
    /\ parents_original_data \in {None, Some(<<"parents">>)}
    /\ parents_new_data \in {None, Some(<<"parents">>)}
    /\ data_set_indices = <<>>
    /\ original_indices = <<>>
    /\ new_indices = <<>>
    /\ joint_target_samples = <<>>
    /\ joint_parent_data = <<>>
    /\ independence_test_args = 0
    /\ p_value = 0
    /\ InitControl /\ InitCheckIdle /\ InitShapleyIdle /\ InitScoreIdle

NextTest ==
    \/ TestValidate
    \/ TestSubsample
    \/ TestIndependence

SpecTest == InitTest /\ [][NextTest]_vars

\* ==================================================================== claims

\* C1: with fdr_control_method = None, the flag stored for the i-th node of
\* graph.nodes is true exactly when that node's own p-value is at most
\* significance_level, whatever the other p-values are.
C1_UncorrectedFlagIsOwnPValue ==
    (pc = "check:return" /\ fdr_control_method = "None") =>
        \A i \in DOMAIN graph.nodes :
            mechanism_changed_for_node[graph.nodes[i]] = (all_p_values[i] <= significance_level)

C1_Witness ==
    /\ pc = "check:return"
    /\ fdr_control_method = "None"
    /\ Len(graph.nodes) = NumNodes
    /\ graph.nodes[1] > graph.nodes[2]
    /\ mechanism_changed_for_node[graph.nodes[1]]
    /\ ~mechanism_changed_for_node[graph.nodes[2]]

\* C2: a call of attribution_set_function with the all-zero subset returns 0 and
\* builds no hybrid model, draws no sample and calls no difference function.
C2_EmptySubsetReturnsZero ==
    [][(num_set_calls' = num_set_calls + 1 /\ \A i \in DOMAIN subset' : subset'[i] = 0) =>
          /\ set_value' = 0
          /\ hybrid' = hybrid
          /\ num_draws' = num_draws
          /\ num_differences' = num_differences]_vars

C2_Witness ==
    /\ num_set_calls = 1
    /\ Len(subset) = NumNodes
    /\ \A i \in DOMAIN subset : subset[i] = 0
    /\ set_value = 0
    /\ num_draws = 1
    /\ num_differences = 0

\* C3: player i is the i-th node of the sorted nodes: the hybrid model of a
\* non-empty subset gives that node its own new mechanism if subset[i] = 1 and its
\* own old mechanism otherwise, and the returned dictionary maps that node to the
\* i-th Shapley value, whatever the iteration orders of the graphs are.
C3_PlayerIsSortedNode ==
    LET nodes == sorted(Range(causal_model_old.nodes) \cap AncestorsAndSelf(causal_model_old, target_node))
    IN /\ (pc = "shapley:estimate" /\ num_set_calls > 0 /\ \E i \in DOMAIN subset : subset[i] = 1) =>
              /\ DOMAIN subset = DOMAIN nodes
              /\ \A i \in DOMAIN nodes :
                    hybrid.causal_mechanism[nodes[i]] =
                        IF subset[i] = 1 THEN causal_model_new.causal_mechanism[nodes[i]]
                        ELSE causal_model_old.causal_mechanism[nodes[i]]
       /\ (pc = "done" /\ error = "none") =>
              /\ DOMAIN attributions = Range(nodes)
              /\ \A i \in DOMAIN nodes : attributions[nodes[i]] = i

C3_Witness ==
    /\ pc = "shapley:estimate"
    /\ num_set_calls > 0
    /\ Len(subset) = NumNodes
    /\ subset[1] = 1
    /\ subset[NumNodes] = 0
    /\ causal_model_old.nodes[1] > causal_model_old.nodes[2]
    /\ causal_model_new.nodes # causal_model_old.nodes
    /\ hybrid.nodes # causal_model_old.nodes

\* C4: after _fit_accounting_for_mechanism_change every node's mechanism was refit
\* exactly once in each model: on old_data in the old model and on new_data in the
\* new model if the node is flagged changed, and in both models on the pooled table
\* of len(old_data) + len(new_data) rows otherwise.
C4_RefitOnOwnOrPooledData ==
    (pc = "distribution_change_of_graphs") =>
        \A n \in Range(causal_model_old.nodes) :
            LET old == mechanisms[causal_model_old.causal_mechanism[n]]
                new == mechanisms[causal_model_new.causal_mechanism[n]]
            IN /\ old.fits = 1
               /\ new.fits = 1
               /\ IF mechanism_changed_for_node[n]
                  THEN old.data = old_data /\ new.data = new_data
                  ELSE /\ old.data = new.data
                       /\ Len(old.data) = Len(old_data) + Len(new_data)
                       /\ Range(old.data) = Range(old_data) \cup Range(new_data)

C4_Witness ==
    /\ pc = "distribution_change_of_graphs"
    /\ Len(causal_model_old.nodes) = NumNodes
    /\ \E n, m \in Range(causal_model_old.nodes) :
         mechanism_changed_for_node[n] /\ ~mechanism_changed_for_node[m]

\* C5: when the graph has a cycle, the validation error is raised with no mechanism
\* change test run, no mechanism refit and no sample drawn before it.
C5_ValidationErrorBeforeAnyWork ==
    (error = "validation") =>
        /\ DOMAIN mechanism_changed_for_node = {}
        /\ \A id \in DOMAIN mechanisms : mechanisms[id].fits = 0
        /\ num_draws = 0

\* C6: mechanism_change_test raises ValueError exactly when one of the parent
\* arrays is given and the other is None, and it raises before any subsampling and
\* any call of the independence test.
C6_PairingErrorIffOneParentArray ==
    /\ (pc # "test") =>
           ((error = "ValueError") <=> (parents_original_data.given # parents_new_data.given))
    /\ (error = "ValueError") =>
           /\ pc = "raised"
           /\ data_set_indices = <<>>
           /\ original_indices = <<>>
           /\ new_indices = <<>>
           /\ joint_target_samples = <<>>
           /\ independence_test_args = 0

C6_Witness ==
    /\ error = "ValueError"
    /\ ~parents_original_data.given
    /\ parents_new_data.given
    /\ Len(old_data) = MaxRows
    /\ Len(new_data) = MaxRows

\* C7: the score of a node that is not flagged changed is 0; the score of a changed
\* root node is difference_fn on the node's original and anomaly columns, with no
\* mechanism cloned, refit or sampled; only a changed node with parents goes through
\* the Monte-Carlo evaluation, which clones and refits once per such node.
C7_ScoreByFlagAndRoot ==
    LET monte_carlo == {n \in DOMAIN results :
                           mechanism_changed_for_node[n] /\ predecessors(causal_model, n) # {}}
    IN /\ \A n \in DOMAIN results :
             LET changed == mechanism_changed_for_node[n]
                 root == predecessors(causal_model, n) = {}
             IN /\ ~changed => (results[n].value = 0 /\ results[n].by = "constant")
                /\ (changed /\ root) =>
                       /\ results[n].by = "difference_fn"
                       /\ results[n].args = <<<<"original_data", n>>, <<"anomaly_data", n>>>>
                /\ (changed /\ ~root) => results[n].by = "monte_carlo"
       /\ (pc = "scores:loop" \/ pc = "done") =>
             /\ Len(mechanisms) = NumNodes + Cardinality(monte_carlo)
             /\ \A id \in 1..NumNodes : mechanisms[id].fits = 0
             /\ num_draws = 2 * Cardinality(monte_carlo)

C7_Witness ==
    /\ pc = "done"
    /\ error = "none"
    /\ \E n, m \in DOMAIN results :
         /\ results[n].by = "difference_fn"
         /\ results[m].by = "monte_carlo"
         /\ results[m].value # 0

C7_WitnessUnchanged ==
    /\ pc = "done"
    /\ \E n, m \in DOMAIN results : results[n].by = "constant" /\ results[m].by = "monte_carlo"

\* The running total after k rows.
Total(k) == IF k = 0 THEN 0 ELSE totals[k]

\* T_(k-1) is nonzero and 1 - T_k / T_(k-1) <= early_stopping_percentage; both sides
\* of the comparison multiplied by T_(k-1)^2 times the percentage's denominator.
StopsAfterRow(k) ==
    /\ Total(k - 1) # 0
    /\ (Total(k - 1) - Total(k)) * Total(k - 1) * early_stopping_percentage[2]
           <= early_stopping_percentage[1] * Total(k - 1) * Total(k - 1)

\* C8: the loop stops after the first row k with T_(k-1) nonzero and
\* 1 - T_k / T_(k-1) <= early_stopping_percentage, or after the last row; no later
\* row is evaluated, and the returned score is T_k / k.
C8_StopsAtFirstSmallRelativeChange ==
    (pc \in {"score:loop", "score:break", "done"}) =>
        /\ Len(totals) = run
        /\ run <= num_evaluation_rows
        /\ \A k \in 1..(run - 1) : ~StopsAfterRow(k)
        /\ (pc = "score:break") => StopsAfterRow(run)
        /\ (pc = "score:loop" /\ run > 0) => ~StopsAfterRow(run)
        /\ (pc = "done") =>
               /\ StopsAfterRow(run) \/ run = num_evaluation_rows
               /\ score = <<Total(run), run>>

C8_Witness ==
    /\ pc = "done"
    /\ run = 2
    /\ num_evaluation_rows = MaxEval
    /\ score = <<2, 2>>

C8_WitnessFullRun ==
    /\ pc = "done"
    /\ run = MaxEval
    /\ ~StopsAfterRow(run)

\* C9: whenever the loop breaks before the last row, the row just added changed the
\* running total by at most the early-stopping fraction of the previous total:
\* |T_k - T_(k-1)| <= early_stopping_percentage * |T_(k-1)|.
C9_BreakOnlyOnSmallChange ==
    (pc = "score:break" /\ run < num_evaluation_rows) =>
        Abs(Total(run) - Total(run - 1)) * early_stopping_percentage[2]
            <= early_stopping_percentage[1] * Abs(Total(run - 1))

ClonesAreDistinct ==
    (pc # "distribution_change") =>
        \A n, m \in Range(causal_model_old.nodes) :
            /\ causal_model_old.causal_mechanism[n] \notin 1..NumNodes
            /\ causal_model_new.causal_mechanism[n] \notin 1..NumNodes
            /\ causal_model_old.causal_mechanism[n] # causal_model_new.causal_mechanism[m]
            /\ (n # m) => /\ causal_model_old.causal_mechanism[n] # causal_model_old.causal_mechanism[m]
                          /\ causal_model_new.causal_mechanism[n] # causal_model_new.causal_mechanism[m]

InputsUnchanged ==
    /\ causal_model' = causal_model
    /\ old_data' = old_data
    /\ new_data' = new_data
    /\ \A id \in 1..NumNodes : mechanisms'[id] = mechanisms[id]

\* C10: distribution_change never changes the reference model's graph, the
\* mechanisms attached to it, old_data or new_data; the mechanisms of the old and
\* the new model are objects distinct from the reference model's and from each
\* other's, and only they are refit.
C10_InputsUnchangedClonesDistinct == []ClonesAreDistinct /\ [][InputsUnchanged]_vars

C10_Witness ==
    /\ pc = "done"
    /\ error = "none"
    /\ Len(mechanisms) = 3 * NumNodes
    /\ \A id \in (NumNodes + 1)..(3 * NumNodes) : mechanisms[id].fits = 1
    /\ \E n \in Range(causal_model_old.nodes) :
         mechanisms[causal_model_old.causal_mechanism[n]].data
             # mechanisms[causal_model_new.causal_mechanism[n]].data

\* The nodes the analysis is about: the ancestors of target_node and target_node.
RelevantNodes == AncestorsAndSelf(causal_model, target_node)

TestedNodes == {calls[i].node : i \in DOMAIN calls}

\* C11: for a reference DAG, when the mechanism-change tests of
\* distribution_change are over the test has been called exactly once for each
\* node among the ancestors of target_node and target_node and for no other
\* node, and the flag dictionary has exactly these nodes as keys; when
\* distribution_change returns, the attribution dictionary and the flag
\* dictionary both have exactly these nodes as keys.
C11_OneEntryPerRelevantNode ==
    is_directed_acyclic_graph(causal_model) =>
        /\ (pc = "check:return") =>
               /\ Len(calls) = Cardinality(RelevantNodes)
               /\ TestedNodes = RelevantNodes
               /\ DOMAIN mechanism_changed_for_node = RelevantNodes
        /\ (pc \in {"distribution_change:return", "done"} /\ error = "none") =>
               /\ DOMAIN attributions = RelevantNodes
               /\ DOMAIN mechanism_changed_for_node = RelevantNodes

\* A returned analysis of a DAG with a node that is not an ancestor of the target.
C11_Witness ==
    /\ pc = "done"
    /\ error = "none"
    /\ is_directed_acyclic_graph(causal_model)
    /\ causal_model.edges # {}
    /\ RelevantNodes # Range(causal_model.nodes)
    /\ DOMAIN attributions = RelevantNodes

\* The tests of a DAG whose target has a proper ancestor are over.
C11_WitnessAncestors ==
    /\ pc = "check:return"
    /\ is_directed_acyclic_graph(causal_model)
    /\ Cardinality(RelevantNodes) > 1
    /\ Len(calls) = Cardinality(RelevantNodes)

\* indices are distinct row positions of table.
DistinctRowIndices(indices, table) ==
    /\ \A k \in DOMAIN indices : indices[k] \in 0..(Len(table) - 1)
    /\ \A i, j \in DOMAIN indices : indices[i] = indices[j] => i = j

\* The test set of mechanism_change_test is balanced, with the given labels for
\* the rows taken from the old and from the new data.
BalancedTestSet(old_label, new_label) ==
    LET n == Min(Len(old_data), Len(new_data))
    IN (pc \in {"test:independence", "done"} /\ error = "none") =>
           /\ Len(original_indices) = n
           /\ Len(new_indices) = n
           /\ DistinctRowIndices(original_indices, old_data)
           /\ DistinctRowIndices(new_indices, new_data)
           /\ Len(joint_target_samples) = 2 * n
           /\ Len(data_set_indices) = 2 * n
           /\ \A k \in 1..n :
                /\ joint_target_samples[k].row = <<"old", original_indices[k] + 1>>
                /\ joint_target_samples[n + k].row = <<"new", new_indices[k] + 1>>
                /\ joint_target_samples[k].column = "target"
                /\ joint_target_samples[n + k].column = "target"
                /\ data_set_indices[k] = old_label
                /\ data_set_indices[n + k] = new_label
           /\ (pc = "done" /\ parents_original_data.given) =>
                  /\ Len(joint_parent_data) = 2 * n
                  /\ \A k \in 1..(2 * n) :
                       /\ joint_parent_data[k].row = joint_target_samples[k].row
                       /\ joint_parent_data[k].column = "parents"

\* C12 (as amended): mechanism_change_test builds a balanced test set: with
\* n = min(old rows, new rows) it picks n distinct old and n distinct new row
\* indices, the joint target array has 2n rows, the old-derived first, the label
\* vector has 2n string entries, "1.0" for the first n rows and "-1.0" for the
\* last n, and with parent data the k-th joint parent row comes from the same
\* dataset and row index as the k-th joint target row.
C12_BalancedTestSetFloatLabels == BalancedTestSet("1.0", "-1.0")

\* C12 as stated: the same with the labels "1" and "-1".
C12_BalancedTestSetIntegerLabels == BalancedTestSet("1", "-1")

\* A finished conditional test whose subsample of the old rows is not the
\* leading rows.
C12_Witness ==
    /\ pc = "done"
    /\ error = "none"
    /\ parents_original_data.given
    /\ Len(old_data) = 2
    /\ Len(new_data) = 1
    /\ original_indices = <<1>>
    /\ Len(joint_parent_data) = 2
    /\ Len(data_set_indices) = 2

\* C13: every call _check_significant_mechanism_change makes to the
\* mechanism-change test passes both parent arrays or neither: neither exactly
\* when the node is a root of the graph, and otherwise both hold the columns of
\* the node's ordered predecessors; so no call satisfies the condition under
\* which the test raises its parent pairing error.
C13_TestCallsPairParents ==
    \A i \in DOMAIN calls :
        LET node == calls[i].node
            original == calls[i].parents_original_data
            new == calls[i].parents_new_data
        IN /\ node = graph.nodes[i]
           /\ original.given = new.given
           /\ original.given <=> (predecessors(graph, node) # {})
           /\ original.given =>
                  /\ original.cols = get_ordered_predecessors(graph, node)
                  /\ new.cols = get_ordered_predecessors(graph, node)
           /\ ~ParentsMismatch(original, new)

\* The tests of a graph are over, one of them of a root node and one of a node
\* with a parent.
C13_Witness ==
    /\ pc = "check:return"
    /\ Len(calls) = Len(graph.nodes)
    /\ \E i, j \in DOMAIN calls :
         /\ ~calls[i].parents_original_data.given
         /\ calls[j].parents_original_data.given
         /\ calls[j].parents_new_data.cols # <<>>

\* C14: when _estimate_distribution_change_score is over it has returned the
\* mean of the rows it processed: their number is at least 1 and at most
\* min(original parent rows + anomaly parent rows, max_num_evaluation_samples),
\* and the final division did not divide by zero.  Stated for parent data with
\* at least one row on either side, on which the fit of the clone and the
\* subsample are defined whatever the mechanism.
C14_MeanOverAtLeastOneRow ==
    (pc \in {"done", "raised"} /\ Len(old_data) >= 1 /\ Len(new_data) >= 1) =>
        /\ error = "none"
        /\ run >= 1
        /\ run <= Min(Len(old_data) + Len(new_data), max_num_evaluation_samples)
        /\ score = <<result, run>>
====
